---- MODULE Spec2Model ----
(***************************************************************************)
(* A model of strip.py: stripFile, the single-pass rewriter that consumes  *)
(* the token stream of tokenize.generate_tokens and writes the stripped    *)
(* source to a sink.                                                       *)
(*                                                                         *)
(* Text is a sequence of one-character strings.  A token is a record       *)
(* [type, text].  The sink is the sequence of write calls made so far,     *)
(* each remembering the index of the token whose loop iteration made it    *)
(* and the call site: "nl" (line 108), "indent" (110), "space" (123) or    *)
(* "text" (125).                                                           *)
(*                                                                         *)
(* The command line of __main__ (the dump flag, the output argument, the   *)
(* input files) and its loop over the input files surround the call.       *)
(***************************************************************************)
EXTENDS Integers, Sequences, FiniteSets, TLC

\* ------------------------------------------------------------------ bounds
\* Longest token stream the token source delivers.
MaxTokens == 6
\* Longest token stream of a source of suites with string statements.
MaxSuiteTokens == 9
\* Longest token stream of a source of nested one-name lines.
MaxNestTokens == 14
\* The -i/--indent count used besides 0 (0 means: indent with tabs).
SpaceIndent == 2
\* Most input files on the command line.
MaxFiles == 2
\* Longest token stream of one input file of a command-line run.
MaxMainTokens == 4

\* ------------------------------------------------------------- token kinds
NAME == "NAME"
NUMBER == "NUMBER"
STRING_T == "STRING"
OP == "OP"
COMMENT == "COMMENT"
NEWLINE == "NEWLINE"
NL == "NL"
INDENT == "INDENT"
DEDENT == "DEDENT"
ENDMARKER == "ENDMARKER"

Tok(type, text) == [type |-> type, text |-> text]

\* The token texts the source draws from.  "r" is a name and a string prefix,
\* "." is punctuation and a part of a number.
ContentTokens ==
  { Tok(NAME, <<"x">>), Tok(NAME, <<"r">>), Tok(NUMBER, <<"1">>),
    Tok(OP, <<".">>), Tok(STRING_T, <<"'", "s", "'">>) }
CommentToken == Tok(COMMENT, <<"#", "c">>)
NewlineToken == Tok(NEWLINE, <<"\n">>)
NlToken == Tok(NL, <<"\n">>)
IndentToken == Tok(INDENT, <<" ">>)
DedentToken == Tok(DEDENT, <<>>)
EndToken == Tok(ENDMARKER, <<>>)

ContentTypes == {NAME, NUMBER, STRING_T, OP}

\* -------------------------------------------------------------- sequences
RECURSIVE Repeat(_, _)
\* Python's  s * n : n copies of s, the empty string when n <= 0.
Repeat(s, n) == IF n <= 0 THEN <<>> ELSE s \o Repeat(s, n - 1)

RECURSIVE Count(_, _)
\* How many tokens of the stream have the given type.
Count(ts, type) ==
  IF ts = <<>> THEN 0
  ELSE (IF ts[1].type = type THEN 1 ELSE 0) + Count(Tail(ts), type)

Last(s) == s[Len(s)]

\* ------------------------------------------------------- the token source
\* tokenize.generate_tokens is a lazy generator.  What it can yield next is
\* decided by what it has yielded: INDENT and DEDENT open a logical line and
\* are followed by its first token, a comment ends its physical line, DEDENT
\* never goes below the outermost level and ENDMARKER comes last at level 0.
SrcDepth(ts) == Count(ts, INDENT) - Count(ts, DEDENT)

LineStartTokens(ts) ==
  ContentTokens \cup {CommentToken, NlToken, IndentToken}
    \cup (IF SrcDepth(ts) > 0 THEN {DedentToken} ELSE {EndToken})

NextTokens(ts) ==
  IF ts = <<>> THEN LineStartTokens(ts)
  ELSE LET last == Last(ts).type IN
    CASE last \in ContentTypes -> ContentTokens \cup {CommentToken, NewlineToken}
      [] last = COMMENT ->
           IF Len(ts) > 1 /\ ts[Len(ts) - 1].type \in ContentTypes
             THEN {NewlineToken} ELSE {NlToken}
      [] last \in {NEWLINE, NL} -> LineStartTokens(ts)
      [] last = INDENT -> ContentTokens
      [] last = DEDENT ->
           ContentTokens
             \cup (IF SrcDepth(ts) > 0 THEN {DedentToken} ELSE {EndToken})
      [] OTHER -> {}

\* ------------------------------------------------------ the rewriter state
VARIABLES
  indent,             \* the indent argument of stripFile (args.indent)
  toks,               \* the tokens the for loop has taken from the tokenizer
  previousTokenType,
  indentLevel,
  didNewLine,
  needNewLine,
  writes,             \* the write calls of this stripFile call, in order
  pc,                 \* "loop", "done" (stream exhausted), the name of the
                      \* exception that ended the run, or in __main__:
                      \* "main" (top of the loop over args.files), "exit"
  debug,              \* the debug argument of stripFile
  stderr,             \* the records printed to sys.stderr
  dump,               \* args.dump
  output,             \* args.output: "None", "-" or "path"
  nfiles,             \* len(args.files)
  fileNo,             \* how many of args.files the loop has started
  closed              \* destination is a closed file

\* The command line and the state of __main__ around a stripFile call.
mainVars == <<debug, stderr, dump, output, nfiles, fileNo, closed>>

vars ==
  <<indent, toks, previousTokenType, indentLevel, didNewLine, needNewLine,
    writes, pc, debug, stderr, dump, output, nfiles, fileNo, closed>>

\* Mutant of IndentChar: the count is used for tabs as for spaces, and a
\* count of 0 gives no indentation.
IndentCharSpacesOnly(n) == Repeat(<<" ">>, n)

\* indentChar = "\t" if indent == 0 else " " * indent
IndentChar(n) == IF n = 0 THEN <<"\t">> ELSE Repeat(<<" ">>, n)

\* The locals of stripFile as one record; i is the index of the token at hand.
Locals ==
  [previousTokenType |-> previousTokenType, indentLevel |-> indentLevel,
   didNewLine |-> didNewLine, needNewLine |-> needNewLine,
   writes |-> writes, pc |-> pc]

InitLocals ==
  [previousTokenType |-> INDENT, indentLevel |-> 0, didNewLine |-> FALSE,
   needNewLine |-> FALSE, writes |-> <<>>, pc |-> "loop"]

Write(i, at, str) == [tok |-> i, at |-> at, str |-> str]

\* Mutant of Dropped: the test for COMMENT is forgotten.
DroppedStringsOnly(s, t) ==
  ~ (t.type # STRING_T \/ s.previousTokenType # INDENT)

\* if (tokenType != STRING or previousTokenType != INDENT)
\*    and tokenType != COMMENT:   ... else the token is ignored
Dropped(s, t) ==
  ~ (/\ (t.type # STRING_T \/ s.previousTokenType # INDENT)
     /\ t.type # COMMENT)

\* INDENT: the write in the didNewLine branch names mod, which is not
\* defined anywhere: Python raises NameError there, after the increment.
IndentStep(s, t, i, ind) ==
  IF s.didNewLine
    THEN [s EXCEPT !.indentLevel = @ + 1, !.pc = "NameError"]
    ELSE [s EXCEPT !.indentLevel = @ + 1, !.needNewLine = TRUE,
                   !.previousTokenType = t.type]

\* Mutant of DedentStep: DEDENT puts the INDENT sentinel back.
DedentStepResetsSentinel(s, t, i, ind) ==
  [s EXCEPT !.indentLevel = @ - 1,
            !.needNewLine = IF s.didNewLine THEN TRUE ELSE @,
            !.previousTokenType = INDENT]

\* Mutant of DedentStep: indentLevel is not decremented.
DedentStepNoDecrement(s, t, i, ind) ==
  [s EXCEPT !.needNewLine = IF s.didNewLine THEN TRUE ELSE @,
            !.previousTokenType = t.type]

DedentStep(s, t, i, ind) ==
  [s EXCEPT !.indentLevel = @ - 1,
            !.needNewLine = IF s.didNewLine THEN TRUE ELSE @,
            !.previousTokenType = t.type]

\* Mutant of NewLineStep: the line break is written at once, not deferred.
NewLineStepEager(s, t, i, ind) ==
  [s EXCEPT !.writes = @ \o << Write(i, "nl", <<"\n">>) >>,
            !.needNewLine = TRUE, !.previousTokenType = t.type]

\* Mutant of NewLineStep: previousTokenType is updated for written tokens only.
NewLineStepKeepsPrevious(s, t, i, ind) ==
  [s EXCEPT !.needNewLine = TRUE]

NewLineStep(s, t, i, ind) ==
  [s EXCEPT !.needNewLine = TRUE, !.previousTokenType = t.type]

\* Any other token: the deferred line break and indentation, the separating
\* space between names and numbers, then the token's text.
LineBreakWrites(s, i, ind) ==
  IF s.needNewLine
    THEN << Write(i, "nl", <<"\n">>),
            Write(i, "indent", Repeat(IndentChar(ind), s.indentLevel)) >>
    ELSE <<>>

\* Mutant of NeedsSpace: a previous NUMBER is not looked at.
NeedsSpaceAfterNameOnly(s, t) ==
  /\ t.type \in {NAME, NUMBER}
  /\ s.previousTokenType = NAME

NeedsSpace(s, t) ==
  /\ t.type \in {NAME, NUMBER}
  /\ s.previousTokenType \in {NAME, NUMBER}

SpaceWrites(s, t, i) ==
  IF NeedsSpace(s, t) THEN << Write(i, "space", <<" ">>) >> ELSE <<>>

\* Mutant of EmitStep: the write of the text is the else of the test for
\* the space, so a token that needs a space loses its text.
EmitStepTextOrSpace(s, t, i, ind) ==
  [s EXCEPT !.writes = @ \o LineBreakWrites(s, i, ind)
                         \o (IF NeedsSpace(s, t)
                               THEN << Write(i, "space", <<" ">>) >>
                               ELSE << Write(i, "text", t.text) >>),
            !.didNewLine = s.needNewLine,
            !.needNewLine = FALSE,
            !.previousTokenType = t.type]

EmitStep(s, t, i, ind) ==
  [s EXCEPT !.writes = @ \o LineBreakWrites(s, i, ind) \o SpaceWrites(s, t, i)
                         \o << Write(i, "text", t.text) >>,
            !.didNewLine = s.needNewLine,
            !.needNewLine = FALSE,
            !.previousTokenType = t.type]

\* One iteration of the for loop, as a function of the locals.
ProcessToken(s, t, i, ind) ==
  IF Dropped(s, t) THEN s
  ELSE CASE t.type = INDENT -> IndentStep(s, t, i, ind)
         [] t.type = DEDENT -> DedentStep(s, t, i, ind)
         [] t.type \in {NEWLINE, NL} -> NewLineStep(s, t, i, ind)
         [] OTHER -> EmitStep(s, t, i, ind)

SetLocals(s) ==
  /\ previousTokenType' = s.previousTokenType
  /\ indentLevel' = s.indentLevel
  /\ didNewLine' = s.didNewLine
  /\ needNewLine' = s.needNewLine
  /\ writes' = s.writes
  /\ pc' = s.pc

\* ------------------------------------------------------------- behaviour
\* stripFile( sourceFile, destinationFile, args.indent ) has just been
\* entered for the only input file, destination a fresh open file: debug
\* has its default.
Init ==
  /\ indent \in {0, SpaceIndent}
  /\ toks = <<>>
  /\ previousTokenType = INDENT
  /\ indentLevel = 0
  /\ didNewLine = FALSE
  /\ needNewLine = FALSE
  /\ writes = <<>>
  /\ pc = "loop"
  /\ debug = FALSE
  /\ stderr = <<>>
  /\ dump = FALSE
  /\ output = "None"
  /\ nfiles = 1
  /\ fileNo = 1
  /\ closed = FALSE

\* The tokenizer yields t and the loop body runs for it, past the test of
\* debug.
Take(t) ==
  /\ pc = "loop"
  /\ ~ debug
  /\ t \in NextTokens(toks)
  /\ toks' = Append(toks, t)
  /\ UNCHANGED <<indent, mainVars>>

\* Mutant of Drop: an ignored token counts as the end of its line.
DropEndsLine(t) ==
  /\ Take(t)
  /\ Dropped(Locals, t)
  /\ needNewLine' = TRUE
  /\ UNCHANGED <<previousTokenType, indentLevel, didNewLine, writes, pc>>

\* Mutant of Drop: line 127 is moved out of the if, so an ignored token is
\* remembered as the previous one.
DropUpdatesPrevious(t) ==
  /\ Take(t)
  /\ Dropped(Locals, t)
  /\ previousTokenType' = t.type
  /\ UNCHANGED <<indentLevel, didNewLine, needNewLine, writes, pc>>

\* The token is ignored: the body of the if of lines 74-75 is skipped, line
\* 127 included.
Drop(t) ==
  /\ Take(t)
  /\ Dropped(Locals, t)
  /\ UNCHANGED <<previousTokenType, indentLevel, didNewLine, needNewLine,
                 writes, pc>>

Indent(t) ==
  /\ Take(t)
  /\ ~ Dropped(Locals, t)
  /\ t.type = INDENT
  /\ SetLocals(IndentStep(Locals, t, Len(toks) + 1, indent))

Dedent(t) ==
  /\ Take(t)
  /\ ~ Dropped(Locals, t)
  /\ t.type = DEDENT
  /\ SetLocals(DedentStep(Locals, t, Len(toks) + 1, indent))

NewLine(t) ==
  /\ Take(t)
  /\ ~ Dropped(Locals, t)
  /\ t.type \in {NEWLINE, NL}
  /\ SetLocals(NewLineStep(Locals, t, Len(toks) + 1, indent))

Emit(t) ==
  /\ Take(t)
  /\ ~ Dropped(Locals, t)
  /\ t.type \notin {INDENT, DEDENT, NEWLINE, NL}
  /\ ~ closed
  /\ SetLocals(EmitStep(Locals, t, Len(toks) + 1, indent))

\* The tokenizer is exhausted after ENDMARKER: the for loop ends.
EndOfStream ==
  /\ pc = "loop"
  /\ toks # <<>>
  /\ Last(toks).type = ENDMARKER
  /\ pc' = "done"
  /\ UNCHANGED <<indent, toks, previousTokenType, indentLevel, didNewLine,
                 needNewLine, writes, mainVars>>

AllTokens ==
  ContentTokens
    \cup {CommentToken, NewlineToken, NlToken, IndentToken, DedentToken, EndToken}

\* The tokens a source of at most max tokens, drawn from alphabet, can still
\* deliver.
Feed(alphabet, max) == IF Len(toks) < max THEN alphabet ELSE {}

\* Sources of every kind of token.
Next ==
  \/ \E t \in Feed(AllTokens, MaxTokens) : Drop(t)
  \/ \E t \in Feed(AllTokens, MaxTokens) : Indent(t)
  \/ \E t \in Feed(AllTokens, MaxTokens) : Dedent(t)
  \/ \E t \in Feed(AllTokens, MaxTokens) : NewLine(t)
  \/ \E t \in Feed(AllTokens, MaxTokens) : Emit(t)
  \/ EndOfStream

Spec == Init /\ [][Next]_vars

\* Longer sources of suites: names and strings as whole or partial
\* statements, no comments, blank lines, numbers or punctuation.
SuiteTokens ==
  { Tok(NAME, <<"x">>), Tok(STRING_T, <<"'", "s", "'">>),
    NewlineToken, IndentToken, DedentToken, EndToken }

NextSuite ==
  \/ \E t \in Feed(SuiteTokens, MaxSuiteTokens) : Drop(t)
  \/ \E t \in Feed(SuiteTokens, MaxSuiteTokens) : Indent(t)
  \/ \E t \in Feed(SuiteTokens, MaxSuiteTokens) : Dedent(t)
  \/ \E t \in Feed(SuiteTokens, MaxSuiteTokens) : NewLine(t)
  \/ \E t \in Feed(SuiteTokens, MaxSuiteTokens) : Emit(t)
  \/ EndOfStream

SpecSuite == Init /\ [][NextSuite]_vars

\* Still longer sources of nested suites of names: nothing is dropped.
NestTokens ==
  { Tok(NAME, <<"x">>), NewlineToken, IndentToken, DedentToken, EndToken }

NextNest ==
  \/ \E t \in Feed(NestTokens, MaxNestTokens) : Indent(t)
  \/ \E t \in Feed(NestTokens, MaxNestTokens) : Dedent(t)
  \/ \E t \in Feed(NestTokens, MaxNestTokens) : NewLine(t)
  \/ \E t \in Feed(NestTokens, MaxNestTokens) : Emit(t)
  \/ EndOfStream

SpecNest == Init /\ [][NextNest]_vars

RECURSIVE Flatten(_)
\* The characters of a sequence of write calls.
Flatten(ws) == IF ws = <<>> THEN <<>> ELSE ws[1].str \o Flatten(Tail(ws))

\* --------------------------------------------- tokenizing written text
\* tokenize.generate_tokens on the text of a sink, for the characters the
\* rewriter can have written: the letters x, r, s, c, the digit 1, ".", "'",
\* "#", space, tab and newline.
Letters == {"x", "r", "s", "c"}
Digits == {"1"}
Blanks == {" ", "\t"}
ERRORTOKEN == "ERRORTOKEN"

First(str, n) == SubSeq(str, 1, n)
Skip(str, n) == SubSeq(str, n + 1, Len(str))

RECURSIVE PrefixLen(_, _)
\* The length of the longest prefix of str made of characters of S.
PrefixLen(str, S) ==
  IF str = <<>> \/ str[1] \notin S THEN 0 ELSE 1 + PrefixLen(Tail(str), S)

RECURSIVE LineLen(_)
\* The length of the first line of a non-empty text, its newline included.
LineLen(str) ==
  IF str = <<>> THEN 0
  ELSE IF str[1] = "\n" THEN 1 ELSE 1 + LineLen(Tail(str))

RECURSIVE SplitLines(_)
\* What readline returns call after call: the lines, each with its newline,
\* the last one without if the text does not end in one.
SplitLines(text) ==
  IF text = <<>> THEN <<>>
  ELSE << First(text, LineLen(text)) >> \o SplitLines(Skip(text, LineLen(text)))

RECURSIVE ColumnFrom(_, _)
\* The column after leading blanks: a space counts 1, a tab goes to the next
\* multiple of 8.
ColumnFrom(blanks, col) ==
  IF blanks = <<>> THEN col
  ELSE ColumnFrom(Tail(blanks),
                  IF blanks[1] = "\t" THEN ((col \div 8) + 1) * 8 ELSE col + 1)

\* The length of the number at the head of str, 0 if there is none:
\* digits with an optional point and fraction, or a point and digits.
NumberLen(str) ==
  IF str = <<>> THEN 0
  ELSE IF str[1] \in Digits
    THEN LET d == PrefixLen(str, Digits) IN
           IF Len(str) > d /\ str[d + 1] = "."
             THEN d + 1 + PrefixLen(Skip(str, d + 1), Digits)
             ELSE d
  ELSE IF str[1] = "." /\ Len(str) >= 2 /\ str[2] \in Digits
    THEN 1 + PrefixLen(Tail(str), Digits)
  ELSE 0

\* The length of the string literal at the head of str, 0 if there is none:
\* an optional prefix r, a quote, characters of the line, a quote.
StringLen(str) ==
  LET p == IF str # <<>> /\ str[1] = "r" THEN 1 ELSE 0
      body == Skip(str, p + 1)
      n == PrefixLen(body, (Letters \cup Digits \cup Blanks \cup {".", "#"}))
  IN IF Len(str) > p /\ str[p + 1] = "'" /\ Len(body) > n /\ body[n + 1] = "'"
       THEN p + 1 + n + 1
       ELSE 0

RECURSIVE ScanLine(_)
\* The tokens of a logical line from its first token on, in the order the
\* pseudo-token pattern tries them: comment, number, operator, string, name.
ScanLine(str) ==
  IF str = <<>> THEN <<>>
  ELSE IF str[1] \in Blanks THEN ScanLine(Tail(str))
  ELSE IF str[1] = "\n" THEN << Tok(NEWLINE, <<"\n">>) >>
  ELSE IF str[1] = "#"
    THEN LET n == PrefixLen(str, (Letters \cup Digits \cup Blanks
                                    \cup {".", "#", "'"})) IN
           << Tok(COMMENT, First(str, n)) >> \o ScanLine(Skip(str, n))
  ELSE IF NumberLen(str) > 0
    THEN << Tok(NUMBER, First(str, NumberLen(str))) >>
           \o ScanLine(Skip(str, NumberLen(str)))
  ELSE IF str[1] = "."
    THEN IF Len(str) >= 3 /\ str[2] = "." /\ str[3] = "."
           THEN << Tok(OP, First(str, 3)) >> \o ScanLine(Skip(str, 3))
           ELSE << Tok(OP, <<".">>) >> \o ScanLine(Tail(str))
  ELSE IF StringLen(str) > 0
    THEN << Tok(STRING_T, First(str, StringLen(str))) >>
           \o ScanLine(Skip(str, StringLen(str)))
  ELSE IF str[1] \in Letters
    THEN LET n == PrefixLen(str, Letters \cup Digits) IN
           << Tok(NAME, First(str, n)) >> \o ScanLine(Skip(str, n))
  ELSE << Tok(ERRORTOKEN, <<str[1]>>) >> \o ScanLine(Tail(str))

\* The end of the text: an implicit NEWLINE if the last line has no newline
\* and is not a comment line, a DEDENT for every open level, ENDMARKER.
EofTokens(indents, lastLine) ==
  (IF /\ lastLine # <<>>
      /\ Last(lastLine) # "\n"
      /\ LET r == Skip(lastLine, PrefixLen(lastLine, Blanks)) IN
           r = <<>> \/ r[1] # "#"
     THEN << Tok(NEWLINE, <<>>) >> ELSE <<>>)
    \o [k \in 1..(Len(indents) - 1) |-> DedentToken]
    \o << EndToken >>

RECURSIVE LexFrom(_, _, _)
\* The tokens of the remaining lines, with the stack of open indentation
\* columns and the line read last.
LexFrom(lines, indents, lastLine) ==
  IF lines = <<>> THEN EofTokens(indents, lastLine)
  ELSE
    LET line == Head(lines)
        pos == PrefixLen(line, Blanks)
        col == ColumnFrom(First(line, pos), 0)
        rest == Skip(line, pos)
    IN
      IF rest = <<>> THEN EofTokens(indents, lastLine)  \* blanks, then EOF
      ELSE IF rest[1] = "#"
        THEN LET n == PrefixLen(rest, (Letters \cup Digits \cup Blanks
                                         \cup {".", "#", "'"})) IN
               << Tok(COMMENT, First(rest, n)), Tok(NL, Skip(rest, n)) >>
                 \o LexFrom(Tail(lines), indents, line)
      ELSE IF rest[1] = "\n"
        THEN << Tok(NL, <<"\n">>) >> \o LexFrom(Tail(lines), indents, line)
      ELSE IF col > Last(indents)
        THEN << Tok(INDENT, First(line, pos)) >> \o ScanLine(rest)
               \o LexFrom(Tail(lines), Append(indents, col), line)
      ELSE IF \A k \in DOMAIN indents : indents[k] # col
        THEN << Tok(ERRORTOKEN, <<>>) >>     \* IndentationError is raised
      ELSE
        LET open == SelectSeq(indents, LAMBDA c : c <= col) IN
          [k \in 1..(Len(indents) - Len(open)) |-> DedentToken]
            \o ScanLine(rest) \o LexFrom(Tail(lines), open, line)

\* generate_tokens over a file holding text.
Tokenize(text) == LexFrom(SplitLines(text), <<0>>, <<>>)

RECURSIVE StripFrom(_, _, _, _)
\* The for loop of stripFile over the token stream ts from its token i on,
\* as a function: the locals when the stream is exhausted or an error stops
\* the loop.
StripFrom(s, ts, i, ind) ==
  IF s.pc # "loop" THEN s
  ELSE IF i > Len(ts) THEN [s EXCEPT !.pc = "done"]
  ELSE IF ts[i].type = ERRORTOKEN /\ ts[i].text = <<>>
    THEN [s EXCEPT !.pc = "IndentationError"]
  ELSE StripFrom(ProcessToken(s, ts[i], i, ind), ts, i + 1, ind)

\* The text stripFile writes for the file holding text.
StripText(text, ind) ==
  Flatten(StripFrom(InitLocals, Tokenize(text), 1, ind).writes)

\* ------------------------------------------------------------- __main__
\* The debug branch of the loop body.  Its print names indentCount, srcLine,
\* srcCol, elineno, ecol and ltext, none of them defined: building the
\* arguments raises NameError and nothing reaches sys.stderr.
Trace(t) ==
  /\ pc = "loop"
  /\ debug
  /\ t \in NextTokens(toks)
  /\ toks' = Append(toks, t)
  /\ pc' = "NameError"
  /\ UNCHANGED <<indent, previousTokenType, indentLevel, didNewLine,
                 needNewLine, writes, mainVars>>

\* The last branch of the loop body when destination is a closed file: its
\* first write call raises ValueError (I/O operation on closed file).  The
\* assignment of the inner else has run by then.
EmitClosed(t) ==
  /\ Take(t)
  /\ ~ Dropped(Locals, t)
  /\ t.type \notin {INDENT, DEDENT, NEWLINE, NL}
  /\ closed
  /\ didNewLine' = IF needNewLine THEN didNewLine ELSE FALSE
  /\ pc' = "ValueError"
  /\ UNCHANGED <<previousTokenType, indentLevel, needNewLine, writes>>

\* What the tokenizer puts in the place of a token when it raises.
FailToken == Tok(ERRORTOKEN, <<>>)

\* The exceptions generate_tokens can raise in place of its next token:
\* TokenError where a token may start (a triple-quoted string or a bracket
\* that the rest of the file does not close), IndentationError at the start
\* of a line inside a suite (a column that matches no outer level).
TokenizerFailures(ts) ==
  (IF NextTokens(ts) \cap ContentTokens # {} THEN {"TokenError"} ELSE {})
    \cup (IF ts # <<>> /\ Last(ts).type \in {NEWLINE, NL} /\ SrcDepth(ts) > 0
            THEN {"IndentationError"} ELSE {})

\* Mutant of TokenizerFails: the exception is swallowed and the loop goes on
\* with the token after the bad one.
TokenizerFailsSkips(e) ==
  /\ pc = "loop"
  /\ e \in TokenizerFailures(toks)
  /\ toks' = Append(toks, FailToken)
  /\ UNCHANGED <<indent, previousTokenType, indentLevel, didNewLine,
                 needNewLine, writes, pc, mainVars>>

\* The for statement asks the tokenizer for a token and the tokenizer raises
\* e: nothing in stripFile catches it.
TokenizerFails(e) ==
  /\ pc = "loop"
  /\ e \in TokenizerFailures(toks)
  /\ toks' = Append(toks, FailToken)
  /\ pc' = e
  /\ UNCHANGED <<indent, previousTokenType, indentLevel, didNewLine,
                 needNewLine, writes, mainVars>>

\* The command line is parsed and outputFile is set: None, sys.stdout or
\* the file opened at args.output.
InitMain ==
  /\ indent \in {0, SpaceIndent}
  /\ dump \in BOOLEAN
  /\ output \in {"None", "-", "path"}
  /\ nfiles \in 1 .. MaxFiles
  /\ fileNo = 0
  /\ closed = FALSE
  /\ debug = FALSE
  /\ stderr = <<>>
  /\ toks = <<>>
  /\ previousTokenType = INDENT
  /\ indentLevel = 0
  /\ didNewLine = FALSE
  /\ needNewLine = FALSE
  /\ writes = <<>>
  /\ pc = "main"

\* One pass of the loop over args.files up to the call: the destination is
\* a file opened for this input or outputFile as it is, and
\* stripFile( sourceFile, destinationFile, args.indent ) is entered.  The
\* call passes no fourth argument: debug takes its default.
StartFile ==
  /\ pc = "main"
  /\ fileNo < nfiles
  /\ fileNo' = fileNo + 1
  /\ closed' = IF output = "None" THEN FALSE ELSE closed
  /\ debug' = FALSE
  /\ toks' = <<>>
  /\ SetLocals(InitLocals)
  /\ UNCHANGED <<indent, stderr, dump, output, nfiles>>

\* stripFile has returned: sourceFile.close(), and inside the loop
\* outputFile.close() when outputFile is neither None nor sys.stdout.
CloseFile ==
  /\ pc = "done"
  /\ closed' = IF output = "path" THEN TRUE ELSE closed
  /\ pc' = "main"
  /\ UNCHANGED <<indent, toks, previousTokenType, indentLevel, didNewLine,
                 needNewLine, writes, debug, stderr, dump, output, nfiles,
                 fileNo>>

\* args.files is exhausted.
Exit ==
  /\ pc = "main"
  /\ fileNo = nfiles
  /\ pc' = "exit"
  /\ UNCHANGED <<indent, toks, previousTokenType, indentLevel, didNewLine,
                 needNewLine, writes, mainVars>>

\* The input files of a command-line run: short, of names, strings,
\* comments and structure.
MainTokens ==
  { Tok(NAME, <<"x">>), Tok(STRING_T, <<"'", "s", "'">>), CommentToken,
    NewlineToken, IndentToken, DedentToken, EndToken }

NextMain ==
  \/ StartFile
  \/ \E t \in Feed(MainTokens, MaxMainTokens) : Drop(t)
  \/ \E t \in Feed(MainTokens, MaxMainTokens) : Indent(t)
  \/ \E t \in Feed(MainTokens, MaxMainTokens) : Dedent(t)
  \/ \E t \in Feed(MainTokens, MaxMainTokens) : NewLine(t)
  \/ \E t \in Feed(MainTokens, MaxMainTokens) : Emit(t)
  \/ \E t \in Feed(MainTokens, MaxMainTokens) : EmitClosed(t)
  \/ \E e \in Feed({"TokenError", "IndentationError"}, MaxMainTokens) :
       TokenizerFails(e)
  \/ EndOfStream
  \/ CloseFile
  \/ Exit

\* strip.py run from the command line.
SpecMain == InitMain /\ [][NextMain]_vars

\* stripFile called as a function, with debug of the caller's choice.
InitDebug ==
  /\ indent \in {0, SpaceIndent}
  /\ debug \in BOOLEAN
  /\ toks = <<>>
  /\ previousTokenType = INDENT
  /\ indentLevel = 0
  /\ didNewLine = FALSE
  /\ needNewLine = FALSE
  /\ writes = <<>>
  /\ pc = "loop"
  /\ stderr = <<>>
  /\ dump = FALSE
  /\ output = "None"
  /\ nfiles = 1
  /\ fileNo = 1
  /\ closed = FALSE

NextDebug ==
  \/ \E t \in Feed(AllTokens, MaxMainTokens) : Trace(t)
  \/ \E t \in Feed(AllTokens, MaxMainTokens) : Drop(t)
  \/ \E t \in Feed(AllTokens, MaxMainTokens) : Indent(t)
  \/ \E t \in Feed(AllTokens, MaxMainTokens) : Dedent(t)
  \/ \E t \in Feed(AllTokens, MaxMainTokens) : NewLine(t)
  \/ \E t \in Feed(AllTokens, MaxMainTokens) : Emit(t)
  \/ EndOfStream

SpecDebug == InitDebug /\ [][NextDebug]_vars

\* ------------------------------------------------- reading the sink back
\* The text the sink holds.
SinkText == Flatten(writes)

RECURSIVE CountChar(_, _)
CountChar(str, c) ==
  IF str = <<>> THEN 0
  ELSE (IF str[1] = c THEN 1 ELSE 0) + CountChar(Tail(str), c)

\* The write calls made while token i was at hand.
WritesOf(i) == SelectSeq(writes, LAMBDA w : w.tok = i)
HasWrites(i) == \E k \in DOMAIN writes : writes[k].tok = i

\* INDENT tokens minus DEDENT tokens among the tokens before token i.
DepthBefore(i) == SrcDepth(SubSeq(toks, 1, i - 1))

\* One indentation unit of this run, d times.
Units(d) == Repeat(IndentChar(indent), d)

\* Token j was neither a comment nor a content token that left no trace.
Kept(j) ==
  /\ toks[j].type # COMMENT
  /\ toks[j].type \in ContentTypes => HasWrites(j)

\* The kind of the last kept token before token i, INDENT when there is none.
PrevKind(i) ==
  LET js == { j \in 1..(i - 1) : Kept(j) } IN
    IF js = {} THEN INDENT
    ELSE toks[CHOOSE j \in js : \A j2 \in js : j2 <= j].type

\* ---------------------------------------------------------------- C1
\* Every INDENT and DEDENT of the stream follows a NEWLINE, blank lines,
\* comment lines and other DEDENTs apart.
FollowsNewline(ts, i) ==
  \E j \in 1..(i - 1) :
    /\ ts[j].type = NEWLINE
    /\ \A m \in (j + 1)..(i - 1) : ts[m].type \in {NL, COMMENT, DEDENT}

WellFormed(ts) ==
  /\ \A i \in DOMAIN ts : ts[i].type \in {INDENT, DEDENT} => FollowsNewline(ts, i)
  /\ \A i \in DOMAIN ts : SrcDepth(SubSeq(ts, 1, i)) >= 0

\* C1: on a well-formed token stream stripFile raises no error, also when an
\* INDENT arrives while didNewLine is true.
C1_NeverFails == WellFormed(toks) => pc # "NameError"

\* ---------------------------------------------------------------- C2
\* Token i is a string that is the whole first statement of the module
\* (only comment and blank lines before it) or of an indented suite.
IsLeadingDocstring(i) ==
  /\ toks[i].type = STRING_T
  /\ i < Len(toks)
  /\ toks[i + 1].type \in {NEWLINE, COMMENT}
  /\ \/ \A j \in 1..(i - 1) : toks[j].type \in {COMMENT, NL}
     \/ i > 1 /\ toks[i - 1].type = INDENT

\* Token j opens the statement right after the docstring statement at i.
IsNextSibling(i, j) ==
  /\ j \in DOMAIN toks
  /\ j > i + 1
  /\ toks[j].type \in ContentTypes
  /\ \A m \in (i + 1)..(j - 1) : toks[m].type \in {NEWLINE, COMMENT, NL}

\* C2: the string of a leading docstring statement is never written, and the
\* statement after it starts a line indented by the suite's depth.
C2_LeadingDocstringDropped ==
  \A i \in DOMAIN toks :
    IsLeadingDocstring(i) =>
      /\ ~ HasWrites(i)
      /\ \A j \in DOMAIN toks :
           IsNextSibling(i, j) =>
             WritesOf(j) = << Write(j, "nl", <<"\n">>),
                              Write(j, "indent", Units(DepthBefore(i))),
                              Write(j, "text", toks[j].text) >>

\* ---------------------------------------------------------------- C3
\* C3: no write call is made for a COMMENT token and no comment text is in
\* the sink ("#" occurs in comment texts only).
C3_CommentNeverWritten ==
  /\ \A k \in DOMAIN writes : toks[writes[k].tok].type # COMMENT
  /\ CountChar(SinkText, "#") = 0

\* A comment went by, both in mid-line and on a line of its own, and tokens
\* after it were written.
C3_Witness ==
  /\ \E i \in DOMAIN toks :
       /\ toks[i].type = COMMENT
       /\ i > 1 /\ toks[i - 1].type \in ContentTypes
       /\ \E k \in DOMAIN writes : writes[k].tok > i
  /\ \E i \in DOMAIN toks :
       /\ toks[i].type = COMMENT
       /\ (i = 1 \/ toks[i - 1].type \in {NEWLINE, NL})
       /\ \E k \in DOMAIN writes : writes[k].tok > i

\* ---------------------------------------------------------------- C4
\* The names, numbers, strings and operators of a token stream.
ContentOf(ts) == SelectSeq(ts, LAMBDA t : t.type \in ContentTypes)

\* The content tokens of the input that stripFile wrote, in stream order.
WrittenTokens ==
  LET idx == SelectSeq([i \in DOMAIN toks |-> i],
                       LAMBDA i : toks[i].type \in ContentTypes /\ HasWrites(i))
  IN [k \in DOMAIN idx |-> toks[idx[k]]]

\* C4: when the stream is exhausted, tokenizing the text in the sink gives
\* the content tokens of the input that were not dropped, kind by kind and
\* text by text.
C4_RoundTrip ==
  pc = "done" => ContentOf(Tokenize(SinkText)) = WrittenTokens

\* ---------------------------------------------------------------- C5
\* C5: when the stream is exhausted, stripFile run on the text in the sink
\* writes that same text.
C5_Idempotent ==
  pc = "done" => StripText(SinkText, indent) = SinkText

\* ---------------------------------------------------------------- C6
NameOrNumber(type) == type \in {NAME, NUMBER}

\* C6: a written token is preceded by one separating space, written right
\* before its text, exactly when it and the previous kept token are names
\* or numbers; otherwise no separating space is written for it.
C6_SpacingRule ==
  \A i \in DOMAIN toks :
    HasWrites(i) =>
      IF NameOrNumber(toks[i].type) /\ NameOrNumber(PrevKind(i))
        THEN WritesOf(i) = << Write(i, "space", <<" ">>),
                              Write(i, "text", toks[i].text) >>
        ELSE \A k \in DOMAIN writes :
               writes[k].tok = i => writes[k].at # "space"

\* A name after a number got its space, punctuation after a name got none.
C6_Witness ==
  /\ \E i \in DOMAIN toks :
       /\ i > 1 /\ toks[i].type = NAME /\ toks[i - 1].type = NUMBER
       /\ WritesOf(i) = << Write(i, "space", <<" ">>),
                           Write(i, "text", toks[i].text) >>
  /\ \E i \in DOMAIN toks :
       /\ i > 1 /\ toks[i].type = OP /\ toks[i - 1].type = NAME
       /\ WritesOf(i - 1) # <<>>
       /\ WritesOf(i) = << Write(i, "text", toks[i].text) >>

\* ---------------------------------------------------------------- C7
\* C7: every line break is followed by exactly as many indentation units as
\* INDENT tokens minus DEDENT tokens came before the token that starts the
\* line, and then by that token's text.
C7_IndentationFidelity ==
  \A k \in DOMAIN writes :
    writes[k].at = "nl" =>
      LET i == writes[k].tok IN
        /\ k + 2 <= Len(writes)
        /\ writes[k + 1] = Write(i, "indent", Units(DepthBefore(i)))
        /\ writes[k + 2] = Write(i, "text", toks[i].text)

\* Three suites deep a token was written after 3 units, and after two DEDENTs
\* the next token started a line with 1 unit.
C7_Witness ==
  \E i, j \in DOMAIN toks :
    /\ i < j
    /\ DepthBefore(i) = 3
    /\ WritesOf(i) = << Write(i, "nl", <<"\n">>),
                        Write(i, "indent", Units(3)),
                        Write(i, "text", toks[i].text) >>
    /\ j > 2 /\ toks[j - 1].type = DEDENT /\ toks[j - 2].type = DEDENT
    /\ DepthBefore(j - 2) = 3
    /\ WritesOf(j) = << Write(j, "nl", <<"\n">>),
                        Write(j, "indent", Units(1)),
                        Write(j, "text", toks[j].text) >>

\* ---------------------------------------------------------------- C8
\* Write calls k1 < k2 put the texts of two tokens written one after the other.
ConsecutiveTexts(k1, k2) ==
  /\ k1 < k2
  /\ writes[k1].at = "text"
  /\ writes[k2].at = "text"
  /\ \A k \in (k1 + 1)..(k2 - 1) : writes[k].at # "text"

\* C8: at most one line break lies between the texts of two tokens written
\* one after the other.
C8_AtMostOneBreak ==
  \A k1, k2 \in DOMAIN writes :
    ConsecutiveTexts(k1, k2) =>
      CountChar(Flatten(SubSeq(writes, k1 + 1, k2 - 1)), "\n") <= 1

\* Three or more line-ending tokens lay between two written tokens, and one
\* line break was written between their texts.
C8_Witness ==
  \E k1, k2 \in DOMAIN writes :
    /\ ConsecutiveTexts(k1, k2)
    /\ writes[k2].tok - writes[k1].tok >= 4
    /\ \E m \in (writes[k1].tok + 1)..(writes[k2].tok - 1) : toks[m].type = NL
    /\ CountChar(Flatten(SubSeq(writes, k1 + 1, k2 - 1)), "\n") = 1

\* ---------------------------------------------------------------- C9
\* Write call k puts the last non-empty token text the sink holds.
LastContentText(k) ==
  /\ writes[k].at = "text"
  /\ writes[k].str # <<>>
  /\ \A k2 \in (k + 1)..Len(writes) :
       ~ (writes[k2].at = "text" /\ writes[k2].str # <<>>)

\* C9: once the stream has ended with ENDMARKER, nothing (no line break in
\* particular) is in the sink after the text of the last token with
\* non-empty text.
C9_NoTrailingBreak ==
  (toks # <<>> /\ Last(toks).type = ENDMARKER) =>
    \A k \in DOMAIN writes :
      LastContentText(k) => Flatten(SubSeq(writes, k + 1, Len(writes))) = <<>>

\* ---------------------------------------------------------------- C10
\* Tokens i .. i+3 are INDENT, STRING, NEWLINE, STRING.
TwoStringSuite(i) ==
  /\ i + 3 <= Len(toks)
  /\ toks[i].type = INDENT
  /\ toks[i + 1].type = STRING_T
  /\ toks[i + 2].type = NEWLINE
  /\ toks[i + 3].type = STRING_T

\* C10: in a suite that starts STRING, NEWLINE, STRING the first string is
\* dropped and the second is written.
C10_SecondStringKept ==
  \A i \in DOMAIN toks :
    TwoStringSuite(i) =>
      /\ ~ HasWrites(i + 1)
      /\ \E k \in DOMAIN writes :
           writes[k] = Write(i + 3, "text", toks[i + 3].text)

C10_Witness ==
  \E i \in DOMAIN toks :
    /\ TwoStringSuite(i)
    /\ i > 1
    /\ CountChar(SinkText, "'") = 2

\* ---------------------------------------------------------------- C11
\* C11: on a command line with the dump flag, stripFile runs with debug set
\* and every token the loop has taken has its one trace record on the error
\* stream, while the conversion goes on as without the flag.
C11_DumpTraces ==
  (dump /\ pc \in {"loop", "done"}) =>
    (debug /\ Len(stderr) = Len(toks))

\* ---------------------------------------------------------------- C12
\* C12: with an output path and two or more input files no write meets a
\* closed sink, and the sink is closed only when the last input file has
\* been converted.
C12_SinkStaysOpen ==
  (output = "path" /\ nfiles >= 2) =>
    /\ pc # "ValueError"
    /\ closed => (fileNo = nfiles /\ pc \in {"main", "exit"})

\* ---------------------------------------------------------------- C13
\* C13: every line written at depth d starts, right after its line break,
\* with d tab characters when the indent count is 0 and with d * N space
\* characters when the indent count is N > 0, and the token follows.
IndentationOf(k) ==
  LET d == DepthBefore(writes[k].tok)
      str == writes[k].str
  IN IF indent = 0
       THEN Len(str) = d /\ \A c \in DOMAIN str : str[c] = "\t"
       ELSE Len(str) = d * indent /\ \A c \in DOMAIN str : str[c] = " "

C13_IndentationUnit ==
  \A k \in DOMAIN writes :
    writes[k].at = "nl" =>
      /\ k + 2 <= Len(writes)
      /\ writes[k + 1].at = "indent"
      /\ writes[k + 1].tok = writes[k].tok
      /\ IndentationOf(k + 1)
      /\ writes[k + 2].at = "text"

\* A line two levels deep has been written with spaces.
C13_Witness ==
  /\ indent = SpaceIndent
  /\ \E k \in DOMAIN writes :
       /\ writes[k].at = "indent"
       /\ DepthBefore(writes[k].tok) = 2
       /\ Len(writes[k].str) = 2 * SpaceIndent

\* ---------------------------------------------------------------- C14
\* C14: when the tokenizer raises after delivering k tokens, the loop takes
\* nothing more, stripFile has ended with an exception the tokenizer raises
\* there, and the sink holds what the loop over those k tokens writes.
C14_FailurePropagated ==
  \A i \in DOMAIN toks :
    toks[i] = FailToken =>
      LET delivered == SubSeq(toks, 1, i - 1) IN
        /\ i = Len(toks)
        /\ pc \in TokenizerFailures(delivered)
        /\ writes = StripFrom(InitLocals, delivered, 1, indent).writes

\* The tokenizer has raised at the start of a line, after a line was written
\* whose line break is still pending.
C14_Witness ==
  /\ toks # <<>>
  /\ Last(toks) = FailToken
  /\ pc \in {"TokenError", "IndentationError"}
  /\ writes # <<>>
  /\ needNewLine

\* ---------------------------------------------------------------- C15
\* A STRING that comes right after a STRING which was not written.
FollowsDroppedString(i) ==
  /\ i > 1
  /\ toks[i].type = STRING_T
  /\ toks[i - 1].type = STRING_T
  /\ ~ HasWrites(i - 1)

\* C15 as stated: a STRING that directly follows a dropped STRING is
\* written: only the first STRING is dropped while previousTokenType holds
\* INDENT.
C15_OnlyFirstStringDropped ==
  \A i \in DOMAIN toks : FollowsDroppedString(i) => HasWrites(i)

\* C15, amended: a STRING that directly follows a dropped STRING is dropped
\* as well: an ignored token leaves previousTokenType at INDENT, and every
\* STRING that arrives while it holds INDENT is ignored.
C15_EveryStringDropped ==
  \A i \in DOMAIN toks : FollowsDroppedString(i) => ~ HasWrites(i)

\* Two STRINGs in a row were dropped and the loop went on to write a token.
C15_Witness ==
  \E i \in DOMAIN toks :
    /\ FollowsDroppedString(i)
    /\ i < Len(toks)
    /\ HasWrites(Len(toks))

\* ---------------------------------------------------------------- C16
\* The step in which the loop takes a DEDENT.
DedentTaken ==
  /\ Len(toks') = Len(toks) + 1
  /\ Last(toks').type = DEDENT

\* What the claim and the code agree on for that step.
DedentCounts ==
  /\ indentLevel' = indentLevel - 1
  /\ needNewLine' = (needNewLine \/ didNewLine)
  /\ UNCHANGED <<didNewLine, writes>>

StringAfterDedent(i) ==
  i > 1 /\ toks[i].type = STRING_T /\ toks[i - 1].type = DEDENT

\* C16 as stated: a DEDENT decrements indentLevel, sets needNewLine when
\* didNewLine is set and puts the INDENT sentinel back in previousTokenType,
\* so a STRING right after the DEDENT is dropped.
C16_DedentResetsSentinel ==
  /\ [][DedentTaken => (DedentCounts /\ previousTokenType' = INDENT)]_vars
  /\ [](\A i \in DOMAIN toks : StringAfterDedent(i) => ~ HasWrites(i))

\* C16, amended: a DEDENT decrements indentLevel, sets needNewLine when
\* didNewLine is set and is recorded in previousTokenType like any token
\* that is not dropped, so a STRING right after the DEDENT is written.
C16_DedentRecorded ==
  /\ [][DedentTaken => (DedentCounts /\ previousTokenType' = DEDENT)]_vars
  /\ [](\A i \in DOMAIN toks : StringAfterDedent(i) => HasWrites(i))

\* A suite has been left, with didNewLine set at its DEDENT, and the STRING
\* after the DEDENT has been written.
C16_Witness ==
  \E i \in DOMAIN toks :
    /\ StringAfterDedent(i)
    /\ HasWrites(i)
    /\ toks[i - 2].type = NEWLINE
    /\ HasWrites(i - 3)
    /\ WritesOf(i - 3)[1].at = "nl"

\* ---------------------------------------------------------------- C17
\* The step in which the loop takes a token the drop rule applies to: a
\* COMMENT, or a STRING while previousTokenType holds INDENT.
DropTaken ==
  /\ Len(toks') = Len(toks) + 1
  /\ \/ Last(toks').type = COMMENT
     \/ Last(toks').type = STRING_T /\ previousTokenType = INDENT

\* C17: taking a token the drop rule applies to changes neither
\* previousTokenType, indentLevel, didNewLine, needNewLine nor the sink, and
\* the loop goes on.
C17_DropIsNoOp ==
  [][DropTaken =>
       UNCHANGED <<previousTokenType, indentLevel, didNewLine, needNewLine,
                   writes, pc>>]_vars

\* A comment has been dropped after the first token of a line inside a
\* suite: every local differs from its initial value but needNewLine.
C17_Witness ==
  /\ toks # <<>>
  /\ Last(toks).type = COMMENT
  /\ ~ HasWrites(Len(toks))
  /\ previousTokenType = NAME
  /\ indentLevel = 1
  /\ didNewLine
  /\ ~ needNewLine
  /\ writes # <<>>

\* ---------------------------------------------------------------- C18
\* Token j belongs to the logical line that token i is on, after it.
LaterOnLine(i, j) ==
  /\ i < j
  /\ j <= Len(toks)
  /\ \A m \in i .. j : toks[m].type \notin {NEWLINE, NL}

\* C18: a dropped STRING is a whole statement: up to the NEWLINE that ends
\* its logical line nothing is written, so no dropped STRING is the first
\* token of a longer expression whose remaining tokens are written.
C18_DroppedStringIsStatement ==
  \A i \in DOMAIN toks :
    (toks[i].type = STRING_T /\ ~ HasWrites(i)) =>
      \A j \in DOMAIN toks : LaterOnLine(i, j) => ~ HasWrites(j)

\* ---------------------------------------------------------------- C19
RECURSIVE KindBefore(_, _)
\* The kind the drop rule compares with when token i of ts arrives: the
\* kind of the last token before i that is neither a COMMENT nor a STRING
\* met while the kind was INDENT, and INDENT when there is none.
KindBefore(ts, i) ==
  IF i = 1 THEN INDENT
  ELSE LET before == KindBefore(ts, i - 1)
           t == ts[i - 1]
       IN IF t.type = COMMENT \/ (t.type = STRING_T /\ before = INDENT)
            THEN before ELSE t.type

\* Token i of ts is one whose text the output has to hold.
TextExpected(ts, i) ==
  /\ ts[i].type \notin {COMMENT, NEWLINE, NL, INDENT, DEDENT}
  /\ ~ (ts[i].type = STRING_T /\ KindBefore(ts, i) = INDENT)

RECURSIVE ExpectedTexts(_, _)
\* The texts of those tokens from token i on, in stream order.
ExpectedTexts(ts, i) ==
  IF i > Len(ts) THEN <<>>
  ELSE (IF TextExpected(ts, i) THEN << ts[i].text >> ELSE <<>>)
         \o ExpectedTexts(ts, i + 1)

\* The strings of the write calls of line 125, in the order of the calls.
WrittenTexts ==
  LET calls == SelectSeq(writes, LAMBDA w : w.at = "text")
  IN [k \in DOMAIN calls |-> calls[k].str]

\* C19: the token texts written are, in order and once each, the texts of
\* the tokens taken that are neither COMMENT, dropped STRING, NEWLINE, NL,
\* INDENT nor DEDENT, and no write call is made for a NEWLINE, NL or DEDENT.
C19_NoLossNoDuplication ==
  /\ WrittenTexts = ExpectedTexts(toks, 1)
  /\ \A k \in DOMAIN writes :
       toks[writes[k].tok].type \notin {NEWLINE, NL, DEDENT}

\* The stream is exhausted: a STRING was dropped, a STRING was written and
\* a token was written after a space.
C19_Witness ==
  /\ pc = "done"
  /\ \E i, j \in DOMAIN toks :
       /\ toks[i].type = STRING_T /\ ~ HasWrites(i)
       /\ toks[j].type = STRING_T /\ HasWrites(j)
  /\ \E k \in DOMAIN writes : writes[k].at = "space"

\* ---------------------------------------------------------------- C20
\* The DEDENT j closes the block that the INDENT i opens.
MatchingDedent(i, j) ==
  /\ toks[i].type = INDENT
  /\ i < j
  /\ toks[j].type = DEDENT
  /\ SrcDepth(SubSeq(toks, 1, j)) = DepthBefore(i)
  /\ \A m \in i .. (j - 1) : SrcDepth(SubSeq(toks, 1, m)) > DepthBefore(i)

\* C20: on a well-formed stream every block, from its INDENT to the matching
\* DEDENT, has a content token that was written at the depth of the block.
C20_SuiteKeepsBody ==
  WellFormed(toks) =>
    \A i, j \in DOMAIN toks :
      MatchingDedent(i, j) =>
        \E m \in (i + 1) .. (j - 1) :
          /\ toks[m].type \in ContentTypes
          /\ DepthBefore(m) = DepthBefore(i) + 1
          /\ HasWrites(m)

====
